---- MODULE Spec2Model ----
(***************************************************************************)
(* The Vancouver Airbnb dashboard (src/App.py) as a state machine.         *)
(*                                                                         *)
(* App.py is a Streamlit script: every user interaction (a widget change   *)
(* or a click on the "Go to Home Page" button) re-runs the script from top *)
(* to bottom.  One action of this model is one such run.  The state is the *)
(* file, the cached dataset, the widgets' values and what the last run     *)
(* left on the page.                                                       *)
(*                                                                         *)
(* Units: price in whole dollars, reviews_per_month in hundredths.  Sums   *)
(* of whole-dollar prices are exact in float64, so a mean is modelled as   *)
(* the reduced fraction sum/count.                                         *)
(***************************************************************************)
EXTENDS Integers, Sequences, FiniteSets, TLC

VARIABLES
    listings_csv,            \* the rows of listings.csv
    cache,                   \* st.cache_data's entry for load_data
    df,                      \* the frame df names (load_data()'s result)
    neighborhoods,           \* multiselect value (a set of neighbourhoods)
    room_types,              \* multiselect value (a set of room types)
    price_range,             \* slider value <<lo, hi>>
    availability,            \* slider value <<lo, hi>>
    reviews_per_month_range, \* slider value <<lo, hi>>
    home_button,             \* st.sidebar.button's value in the last run
    df_filtered,             \* the frame df_filtered names at the end of the run
    out,                     \* the aggregates the last run put on the page
    error                    \* the exception that ended the last run, or NoError

vars == <<listings_csv, cache, df, neighborhoods, room_types, price_range, availability,
          reviews_per_month_range, home_button, df_filtered, out, error>>

\* The longest listings.csv considered.
MaxRows == 2

NoError == "none"

\* No frame: the name is not bound yet.
NoFrame == [columns |-> <<>>, rows |-> <<>>]

\* A page with none of the run's elements on it.
NothingShown == [e \in {} |-> TRUE]

----------------------------------------------------------------------------
(* listings.csv *)

\* An empty cell of the file; pd.read_csv reads it as NaN.
EmptyCell == <<>>

\* The columns of the file.  host_name is one load_data does not keep.
FileColumns ==
    <<"id", "name", "host_name", "neighbourhood", "room_type", "price",
      "latitude", "longitude", "number_of_reviews", "availability_365",
      "last_review", "reviews_per_month">>

\* The rows a listings.csv is made of.  price is the cell's text, one
\* character per element; last_review is the date text <<y, m, d>>; either
\* may be an empty cell, and so may host_name.  latitude and longitude are in
\* thousandths of a degree, reviews_per_month in hundredths.
Listings ==
    { [id |-> 11, name |-> "Loft", host_name |-> "Kim",
       neighbourhood |-> "A", room_type |-> "Entire",
       price |-> <<"$", "8", "0">>,
       latitude |-> 49280, longitude |-> -123120, number_of_reviews |-> 4,
       availability_365 |-> 0, last_review |-> <<2019, 5, 1>>,
       reviews_per_month |-> 50],
      [id |-> 12, name |-> "Suite", host_name |-> EmptyCell,
       neighbourhood |-> "B", room_type |-> "Private",
       price |-> <<"$", "8", "0">>,
       latitude |-> 49260, longitude |-> -123100, number_of_reviews |-> 9,
       availability_365 |-> 365, last_review |-> <<2020, 7, 9>>,
       reviews_per_month |-> 150],
      [id |-> 13, name |-> "Villa", host_name |-> "Lee",
       neighbourhood |-> "A", room_type |-> "Private",
       price |-> <<"$", "1", ",", "2", "5", "0">>,
       latitude |-> 49250, longitude |-> -123140, number_of_reviews |-> 2,
       availability_365 |-> 365, last_review |-> <<2019, 11, 30>>,
       reviews_per_month |-> 150],
      [id |-> 14, name |-> "Den", host_name |-> "Ola",
       neighbourhood |-> "B", room_type |-> "Entire",
       price |-> <<"$", "4", "0">>,
       latitude |-> 49270, longitude |-> -123110, number_of_reviews |-> 0,
       availability_365 |-> 0, last_review |-> EmptyCell,
       reviews_per_month |-> 50] }

\* The files: up to MaxRows listings, each id at most once, in any order.
Files ==
    UNION { { f \in [1..n -> Listings] :
                \A i, j \in 1..n : f[i].id = f[j].id => i = j } : n \in 0..MaxRows }

\* Category names in ascending (lexicographic) order.
SortedNames == <<"A", "B", "Entire", "Private">>

Rank(name) == CHOOSE i \in DOMAIN SortedNames : SortedNames[i] = name

----------------------------------------------------------------------------
(* Frames.  A frame is [columns, rows]; a row maps each column to its value *)
(* and "index" to the row's label.                                         *)

Range(s) == { s[i] : i \in DOMAIN s }

\* pd.read_csv: the file's rows, labelled 0, 1, ... in file order.
read_csv(file) ==
    [columns |-> FileColumns,
     rows |-> [i \in DOMAIN file |-> ("index" :> i - 1) @@ file[i]]]

\* frame[[c1, c2, ...]]
Project(frame, cols) ==
    [columns |-> cols,
     rows |-> [i \in DOMAIN frame.rows |->
                 [c \in Range(cols) \cup {"index"} |-> frame.rows[i][c]]]]

\* The prepending slip: the kept rows come out in reverse order.
RECURSIVE SelectRowsReversed(_, _)
SelectRowsReversed(rows, mask) ==
    IF rows = <<>> THEN <<>>
    ELSE LET rest == SelectRowsReversed(Tail(rows), Tail(mask))
         IN  IF Head(mask) THEN rest \o <<Head(rows)>> ELSE rest

RECURSIVE SelectRows(_, _)
\* frame[mask]: a new frame's rows, those whose mask is TRUE, in order.
SelectRows(rows, mask) ==
    IF rows = <<>> THEN <<>>
    ELSE LET rest == SelectRows(Tail(rows), Tail(mask))
         IN  IF Head(mask) THEN <<Head(rows)>> \o rest ELSE rest

\* The columns whose cells the model reads as text; the others are numbers
\* and names, present in every row of Listings.
TextColumns == {"host_name", "price", "last_review"}

isna(row, c) == c \in TextColumns /\ row[c] = EmptyCell

\* A dropna that overlooks last_review.
dropna_but_last_review(frame) ==
    [frame EXCEPT !.rows =
        SelectRows(@, [i \in DOMAIN @ |->
            \A c \in Range(frame.columns) \ {"last_review"} : ~isna(@[i], c)])]

\* df.dropna(): drops every row with a null in any column.
dropna(frame) ==
    [frame EXCEPT !.rows =
        SelectRows(@, [i \in DOMAIN @ |->
            \A c \in Range(frame.columns) : ~isna(@[i], c)])]

----------------------------------------------------------------------------
(* load_data *)

\* The columns load_data keeps, in order.
Columns ==
    <<"id", "name", "neighbourhood", "room_type", "price", "latitude",
      "longitude", "number_of_reviews", "availability_365", "last_review",
      "reviews_per_month">>

Digit(ch) ==
    CASE ch = "0" -> 0 [] ch = "1" -> 1 [] ch = "2" -> 2 [] ch = "3" -> 3
      [] ch = "4" -> 4 [] ch = "5" -> 5 [] ch = "6" -> 6 [] ch = "7" -> 7
      [] ch = "8" -> 8 [] ch = "9" -> 9

RECURSIVE ParseDigits(_, _)
ParseDigits(chars, acc) ==
    IF chars = <<>> THEN acc
    ELSE ParseDigits(Tail(chars), 10 * acc + Digit(Head(chars)))

\* .replace({'\\$': '', ',': ''}, regex=True).astype(float), on one cell
\* holding a whole number of dollars.
parse_price(text) ==
    ParseDigits(SelectSeq(text, LAMBDA ch : ch \notin {"$", ","}), 0)

\* The year of no date: NaT.dt.year is NaN.
NaNYear == 0

NaT == [year |-> NaNYear, month |-> NaNYear, day |-> NaNYear]

\* pd.to_datetime, on one cell: a null cell becomes NaT.
to_datetime(text) ==
    IF text = EmptyCell THEN NaT
    ELSE [year |-> text[1], month |-> text[2], day |-> text[3]]

load_data(file) ==
    LET kept == dropna(Project(read_csv(file), Columns))
    IN  [kept EXCEPT !.rows =
            [i \in DOMAIN @ |->
                [@[i] EXCEPT !.price = parse_price(@),
                             !.last_review = to_datetime(@)]]]

----------------------------------------------------------------------------
(* The filter, lines 114-121 *)

\* Series.isin(values)
isin(v, values) == v \in values

\* An interval test that leaves the upper bound out.
between_open_above(v, left, right) == left <= v /\ v < right

\* Series.between(left, right), inclusive="both"
between(v, left, right) == left <= v /\ v <= right

\* df[(...) & (...) & (...) & (...) & (...)]
Filter(frame, nb, pr, rt, av, rv) ==
    [frame EXCEPT !.rows =
        SelectRows(@, [i \in DOMAIN @ |->
            /\ isin(@[i].neighbourhood, nb)
            /\ between(@[i].price, pr[1], pr[2])
            /\ isin(@[i].room_type, rt)
            /\ between(@[i].availability_365, av[1], av[2])
            /\ between(@[i].reviews_per_month, rv[1], rv[2])])]

----------------------------------------------------------------------------
(* Numbers *)

Min(a, b) == IF a <= b THEN a ELSE b
Max(a, b) == IF a >= b THEN a ELSE b
Abs(a) == IF a < 0 THEN -a ELSE a

RECURSIVE GCD(_, _)
GCD(a, b) == IF b = 0 THEN a ELSE GCD(b, a % b)

\* float('nan'): the mean of no values.
NaN == [num |-> 0, den |-> 0]

\* The fraction n/d, d > 0, in lowest terms.
Rat(n, d) ==
    LET g == GCD(Abs(n), d) IN [num |-> n \div g, den |-> d \div g]

RatLess(a, b) == a.num * b.den < b.num * a.den

RECURSIVE Sum(_)
Sum(values) == IF values = <<>> THEN 0 ELSE Head(values) + Sum(Tail(values))

\* Series.mean()
mean(values) == IF values = <<>> THEN NaN ELSE Rat(Sum(values), Len(values))

Column(rows, c) == [i \in DOMAIN rows |-> rows[i][c]]

\* Series.min(), Series.max() of a column with at least one row.
ColMin(frame, c) ==
    CHOOSE v \in Range(Column(frame.rows, c)) :
        \A w \in Range(Column(frame.rows, c)) : v <= w
ColMax(frame, c) ==
    CHOOSE v \in Range(Column(frame.rows, c)) :
        \A w \in Range(Column(frame.rows, c)) : v >= w

----------------------------------------------------------------------------
(* The sidebar, lines 59-112 *)

\* Series.unique(), as the set of options of a multiselect.
unique(frame, c) == Range(Column(frame.rows, c))

\* The value each slider is created with.
PriceDefault == <<50, 300>>
AvailabilityDefault == <<0, 365>>
ReviewsDefault(frame) == <<0, ColMax(frame, "reviews_per_month")>>

\* st.slider(label, min_value, max_value, value): the slider's bounds are
\* widened to hold the value it is created with.
slider_bounds(min_value, max_value, value) ==
    <<Min(min_value, value[1]), Max(max_value, value[2])>>

\* The ranges a user can set a slider to: lo <= hi within the bounds.  The
\* model lets the handles rest on the column's values, the default and the
\* bounds.
slider_values(frame, c, value) ==
    LET b == slider_bounds(ColMin(frame, c), ColMax(frame, c), value)
        marks == { m \in unique(frame, c) \cup Range(value) \cup Range(b) :
                      b[1] <= m /\ m <= b[2] }
    IN  { v \in marks \X marks : v[1] <= v[2] }

----------------------------------------------------------------------------
(* Sorting *)

\* Whether key a must come before key b.
Precedes(a, b, ascending) == IF ascending THEN RatLess(a, b) ELSE RatLess(b, a)

\* Series.sort_values / DataFrame.sort_values with the default
\* kind="quicksort", as the orders it can give rows with these keys: every
\* order in which no row comes before one that must precede it.  The sort is
\* not stable, so rows with equal keys come out in an order the NumPy build
\* decides.
sort_orders(key, ascending) ==
    { p \in Permutations(DOMAIN key) :
        \A i, j \in DOMAIN key :
            i < j => ~Precedes(key[p[j]], key[p[i]], ascending) }

sort_values(items, key, ascending) ==
    { [i \in DOMAIN items |-> items[p[i]]] : p \in sort_orders(key, ascending) }

\* argsort(kind="mergesort"): the ascending order that keeps rows with equal
\* keys in their order.
stable_order(key) ==
    CHOOSE p \in sort_orders(key, TRUE) :
        \A i, j \in DOMAIN key : (i < j /\ key[p[i]] = key[p[j]]) => p[i] < p[j]

\* The names in S in ascending order: the order groupby gives its groups.
SortedKeys(S) == SelectSeq(SortedNames, LAMBDA n : n \in S)

----------------------------------------------------------------------------
(* The aggregates of the home page, lines 166-240 *)

RowsOf(frame, c, key) == SelectSeq(frame.rows, LAMBDA r : r[c] = key)

\* frame.groupby(c): one group per value of c in the frame, keys ascending.
groups(frame, c) == SortedKeys(unique(frame, c))

\* df_filtered.groupby('room_type')['price'].mean(), before sort_values()
room_means(frame) ==
    LET keys == groups(frame, "room_type")
    IN  [i \in DOMAIN keys |->
            [room_type |-> keys[i],
             price |-> mean(Column(RowsOf(frame, "room_type", keys[i]), "price"))]]

\* A grouping with one group per neighbourhood of the city, present in the
\* frame or not (what groupby does on a categorical column).
neighbourhood_groups_all_categories(frame) ==
    LET keys == SortedKeys({"A", "B"})
    IN  [i \in DOMAIN keys |->
            LET g == RowsOf(frame, "neighbourhood", keys[i])
            IN  [neighbourhood |-> keys[i],
                 average_price |-> mean(Column(g, "price")),
                 num_listings |-> Len(g),
                 avg_availability |-> mean(Column(g, "availability_365")),
                 avg_reviews_per_month |-> mean(Column(g, "reviews_per_month"))]]

\* df_filtered.groupby('neighbourhood').agg(...).reset_index(), before
\* sort_values
neighbourhood_groups(frame) ==
    LET keys == groups(frame, "neighbourhood")
    IN  [i \in DOMAIN keys |->
            LET g == RowsOf(frame, "neighbourhood", keys[i])
            IN  [neighbourhood |-> keys[i],
                 average_price |-> mean(Column(g, "price")),
                 num_listings |-> Len(g),
                 avg_availability |-> mean(Column(g, "availability_365")),
                 avg_reviews_per_month |-> mean(Column(g, "reviews_per_month"))]]

\* df_room_avg: room_means, .sort_values()
sorted_room_means(frame) ==
    sort_values(room_means(frame), Column(room_means(frame), "price"), TRUE)

\* neighborhood_stats: the groups, .sort_values('average_price', ascending=False)
neighborhood_stats(frame) ==
    sort_values(neighbourhood_groups(frame),
                Column(neighbourhood_groups(frame), "average_price"), FALSE)

\* How many rows the "Top 10 Cheapest Listings" table asks for.
TopN == 10

\* DataFrame.nsmallest(n, 'price'), keep="first".  With n >= len(frame)
\* pandas sorts the whole column (sort_values, not stable) and takes the
\* head; otherwise it takes the rows up to the n-th smallest price, orders
\* them with a stable sort and keeps the first n.
nsmallest(frame, n) ==
    LET price == [i \in DOMAIN frame.rows |-> Rat(frame.rows[i].price, 1)]
    IN  IF n <= 0 THEN { <<>> }
        ELSE IF n >= Len(frame.rows) THEN sort_values(frame.rows, price, TRUE)
        ELSE { [i \in 1..n |-> frame.rows[stable_order(price)[i]]] }

\* The columns the cheapest-listings table shows (and the index).
CheapestColumns ==
    <<"name", "neighbourhood", "room_type", "price", "number_of_reviews",
      "availability_365">>

\* df_filtered['last_review_year'] = df_filtered['last_review'].dt.year
\* assigns into the frame df_filtered names: that frame gets a new column.
with_last_review_year(frame) ==
    [columns |-> Append(frame.columns, "last_review_year"),
     rows |-> [i \in DOMAIN frame.rows |->
                 ("last_review_year" :> frame.rows[i].last_review.year)
                    @@ frame.rows[i]]]

\* sns.countplot(x='last_review_year'): one bar per year, rows without a
\* year left out.
countplot(frame) ==
    LET years == unique(frame, "last_review_year") \ {NaNYear}
    IN  [y \in years |-> Len(RowsOf(frame, "last_review_year", y))]

\* The markers of the map at the top, lines 141-149.
markers(frame) ==
    [i \in DOMAIN frame.rows |->
        [location |-> <<frame.rows[i].latitude, frame.rows[i].longitude>>,
         color |-> IF frame.rows[i].price < 100 THEN "blue" ELSE "red"]]

\* folium.Map(location=...) validates its location: a NaN raises ValueError.
validate_location(location) == \A i \in DOMAIN location : location[i] # NaN

\* What the body under "if home_button:" can do with the frame df_filtered
\* names: the frame left behind, the page and the exception.  The bar chart
\* of an empty Series raises IndexError in pandas (its tick positions are
\* indexed); where it does not, the run goes on to the heatmap's map.
home_page(frame, page) ==
    LET withYear == with_last_review_year(frame)
        heat == <<mean(Column(frame.rows, "latitude")),
                  mean(Column(frame.rows, "longitude"))>>
        upToHeatmap(avg, cheap) ==
            ("room_avg" :> avg)
            @@ ("avg_price" :> mean(Column(frame.rows, "price")))
            @@ ("total" :> Len(frame.rows))
            @@ ("avg_rpm" :> mean(Column(frame.rows, "reviews_per_month")))
            @@ ("cheapest" :> Project([frame EXCEPT !.rows = cheap],
                                      CheapestColumns).rows)
            @@ ("year_counts" :> countplot(withYear))
            @@ page
    IN  IF frame.rows = <<>>
        THEN { [df_filtered |-> frame, out |-> page, error |-> "IndexError"] }
             \cup
             { [df_filtered |-> withYear, out |-> upToHeatmap(avg, cheap),
                error |-> IF validate_location(heat) THEN NoError ELSE "ValueError"] :
                  avg \in sorted_room_means(frame),
                  cheap \in nsmallest(frame, TopN) }
        ELSE { [df_filtered |-> withYear,
                out |-> ("neighborhood_stats" :> stats) @@ upToHeatmap(avg, cheap),
                error |-> NoError] :
                  avg \in sorted_room_means(frame),
                  cheap \in nsmallest(frame, TopN),
                  stats \in neighborhood_stats(frame) }

----------------------------------------------------------------------------
(* One run of the script *)

\* The script after the sidebar, lines 114-240, with the widgets' values:
\* the filter, the map, and the home page when the button was clicked.
script_body(frame, nb, pr, rt, av, rv, hb) ==
    LET view == Filter(frame, nb, pr, rt, av, rv)
        page == "markers" :> markers(view)
    IN  IF hb THEN home_page(view, page)
        ELSE { [df_filtered |-> view, out |-> page, error |-> NoError] }

\* A rerun that keeps the frame and the page of the run before.
stale_body(frame, nb, pr, rt, av, rv, hb) ==
    IF hb \/ df_filtered = NoFrame
    THEN script_body(frame, nb, pr, rt, av, rv, hb)
    ELSE { [df_filtered |-> df_filtered, out |-> out, error |-> NoError] }

\* The script from line 115 on, as run by Streamlit.
rerun_body(frame, nb, pr, rt, av, rv, hb) ==
    script_body(frame, nb, pr, rt, av, rv, hb)

\* One run, from the top.  load_data is read from the cache after the first
\* run; st.cache_data hands out a copy of the cached frame.  On a frame with
\* no rows int(df['price'].min()) is int(nan): ValueError at line 88, after
\* the two multiselects (which have no options) and before any slider.
Run(nb, pr, rt, av, rv, hb) ==
    LET data == IF cache = <<>> THEN load_data(listings_csv) ELSE cache[1]
    IN  /\ cache' = <<data>>
        /\ df' = data
        /\ home_button' = hb
        /\ UNCHANGED listings_csv
        /\ IF data.rows = <<>>
           THEN /\ neighborhoods' = {}
                /\ room_types' = {}
                /\ UNCHANGED <<price_range, availability, reviews_per_month_range>>
                /\ df_filtered' = NoFrame
                /\ out' = NothingShown
                /\ error' = "ValueError"
           ELSE /\ neighborhoods' = nb
                /\ room_types' = rt
                /\ price_range' = pr
                /\ availability' = av
                /\ reviews_per_month_range' = rv
                /\ \E o \in rerun_body(data, nb, pr, rt, av, rv, hb) :
                      /\ df_filtered' = o.df_filtered
                      /\ out' = o.out
                      /\ error' = o.error

\* A multiselect that starts with its first option only.
FirstNeighborhoodOnly(frame) == {frame.rows[1].neighbourhood}

\* The multiselects' defaults: every value of the column.
DefaultNeighborhoods(frame) == unique(frame, "neighbourhood")
DefaultRoomTypes(frame) == unique(frame, "room_type")

\* The first run of a session: every widget returns its default.
FirstRun ==
    /\ cache = <<>>
    /\ LET data == load_data(listings_csv)
       IN  IF data.rows = <<>>
           THEN Run({}, <<>>, {}, <<>>, <<>>, FALSE)
           ELSE Run(DefaultNeighborhoods(data), PriceDefault, DefaultRoomTypes(data),
                    AvailabilityDefault, ReviewsDefault(data), FALSE)

\* The user changes one widget: the script runs again with the new value,
\* and the button reads False.
ChangeNeighborhoods ==
    /\ cache # <<>>
    /\ \E nb \in SUBSET unique(df, "neighbourhood") :
          /\ nb # neighborhoods
          /\ Run(nb, price_range, room_types, availability,
                 reviews_per_month_range, FALSE)

ChangeRoomTypes ==
    /\ cache # <<>>
    /\ \E rt \in SUBSET unique(df, "room_type") :
          /\ rt # room_types
          /\ Run(neighborhoods, price_range, rt, availability,
                 reviews_per_month_range, FALSE)

ChangePriceRange ==
    /\ cache # <<>> /\ df.rows # <<>>
    /\ \E pr \in slider_values(df, "price", PriceDefault) :
          /\ pr # price_range
          /\ Run(neighborhoods, pr, room_types, availability,
                 reviews_per_month_range, FALSE)

ChangeAvailability ==
    /\ cache # <<>> /\ df.rows # <<>>
    /\ \E av \in slider_values(df, "availability_365", AvailabilityDefault) :
          /\ av # availability
          /\ Run(neighborhoods, price_range, room_types, av,
                 reviews_per_month_range, FALSE)

ChangeReviewsPerMonth ==
    /\ cache # <<>> /\ df.rows # <<>>
    /\ \E rv \in slider_values(df, "reviews_per_month", ReviewsDefault(df)) :
          /\ rv # reviews_per_month_range
          /\ Run(neighborhoods, price_range, room_types, availability, rv, FALSE)

\* The user clicks "Go to Home Page": the script runs with the widgets as
\* they are and the button reads True.
ClickHome ==
    /\ cache # <<>>
    /\ Run(neighborhoods, price_range, room_types, availability,
           reviews_per_month_range, TRUE)

Init ==
    /\ listings_csv \in Files
    /\ cache = <<>>
    /\ df = NoFrame
    /\ neighborhoods = {}
    /\ room_types = {}
    /\ price_range = <<>>
    /\ availability = <<>>
    /\ reviews_per_month_range = <<>>
    /\ home_button = FALSE
    /\ df_filtered = NoFrame
    /\ out = NothingShown
    /\ error = NoError

Next ==
    \/ FirstRun
    \/ ChangeNeighborhoods
    \/ ChangeRoomTypes
    \/ ChangePriceRange
    \/ ChangeAvailability
    \/ ChangeReviewsPerMonth
    \/ ClickHome

Spec == Init /\ [][Next]_vars

----------------------------------------------------------------------------
(* The filter on its own: any criteria, also ones no widget can produce     *)
(* (an interval with lo > hi).                                              *)

NeighbourhoodSets == SUBSET {"A", "B"}
RoomTypeSets == SUBSET {"Entire", "Private"}
PriceIntervals == {80, 300} \X {80, 300}
AvailabilityIntervals == {0, 365} \X {0, 365}
ReviewsIntervals == {50, 150} \X {50, 150}

FilterInit ==
    /\ listings_csv \in Files
    /\ cache = <<load_data(listings_csv)>>
    /\ df = load_data(listings_csv)
    /\ neighborhoods \in NeighbourhoodSets
    /\ room_types \in RoomTypeSets
    /\ price_range \in PriceIntervals
    /\ availability \in AvailabilityIntervals
    /\ reviews_per_month_range \in ReviewsIntervals
    /\ home_button = FALSE
    /\ df_filtered = Filter(df, neighborhoods, price_range, room_types,
                            availability, reviews_per_month_range)
    /\ out = NothingShown
    /\ error = NoError

\* The filter applied to the dataset with one criterion replaced.
FilterWith(nb, pr, rt, av, rv) ==
    /\ neighborhoods' = nb
    /\ price_range' = pr
    /\ room_types' = rt
    /\ availability' = av
    /\ reviews_per_month_range' = rv
    /\ df_filtered' = Filter(df, nb, pr, rt, av, rv)
    /\ UNCHANGED <<listings_csv, cache, df, home_button, out, error>>

FilterApply ==
    \/ \E nb \in NeighbourhoodSets :
          FilterWith(nb, price_range, room_types, availability,
                     reviews_per_month_range)
    \/ \E pr \in PriceIntervals :
          FilterWith(neighborhoods, pr, room_types, availability,
                     reviews_per_month_range)
    \/ \E rt \in RoomTypeSets :
          FilterWith(neighborhoods, price_range, rt, availability,
                     reviews_per_month_range)
    \/ \E av \in AvailabilityIntervals :
          FilterWith(neighborhoods, price_range, room_types, av,
                     reviews_per_month_range)
    \/ \E rv \in ReviewsIntervals :
          FilterWith(neighborhoods, price_range, room_types, availability, rv)

\* The filter applied, under the same criteria, to its own result.
FilterAgain ==
    /\ df_filtered' = Filter(df_filtered, neighborhoods, price_range, room_types,
                             availability, reviews_per_month_range)
    /\ UNCHANGED <<listings_csv, cache, df, neighborhoods, room_types, price_range,
                   availability, reviews_per_month_range, home_button, out, error>>

FilterNext == FilterApply \/ FilterAgain

FilterSpec == FilterInit /\ [][FilterNext]_vars

----------------------------------------------------------------------------
(* Properties *)

\* The five predicates of the filter on one row, under the criteria in force.
Keeps(row) ==
    /\ row.neighbourhood \in neighborhoods
    /\ row.room_type \in room_types
    /\ price_range[1] <= row.price /\ row.price <= price_range[2]
    /\ availability[1] <= row.availability_365
    /\ row.availability_365 <= availability[2]
    /\ reviews_per_month_range[1] <= row.reviews_per_month
    /\ row.reviews_per_month <= reviews_per_month_range[2]

\* The place of a row in df (ids are unique).
PlaceInDf(row) == CHOOSE k \in DOMAIN df.rows : df.rows[k].id = row.id

\* A session whose first run got past the sidebar.
Started == cache # <<>> /\ df.rows # <<>>

\* The home page's elements.
AggregateNames ==
    {"room_avg", "avg_price", "total", "avg_rpm", "cheapest", "year_counts",
     "neighborhood_stats"}

\* The rows of df_filtered without the column the home page adds.
ViewRows == Project(df_filtered, Columns).rows

\* C1: a listing of the dataset is in the filtered view exactly when all
\* five predicates hold, interval bounds included; an empty selection or an
\* interval with lo > hi gives an empty view.
C1_FilterKeepsExactlyTheMatching ==
    /\ \A k \in DOMAIN df.rows :
          (\E i \in DOMAIN df_filtered.rows : df_filtered.rows[i] = df.rows[k])
             <=> Keeps(df.rows[k])
    /\ \A i \in DOMAIN df_filtered.rows :
          \E k \in DOMAIN df.rows : df_filtered.rows[i] = df.rows[k]
    /\ ( \/ neighborhoods = {} \/ room_types = {}
         \/ price_range[1] > price_range[2]
         \/ availability[1] > availability[2]
         \/ reviews_per_month_range[1] > reviews_per_month_range[2] )
          => df_filtered.rows = <<>>

\* A view that keeps a listing whose price is both bounds of the price
\* interval and leaves another listing out.
C1_Witness ==
    /\ price_range[1] = price_range[2]
    /\ \E i \in DOMAIN df_filtered.rows : df_filtered.rows[i].price = price_range[1]
    /\ Len(df_filtered.rows) < Len(df.rows)

\* C7: the view lists the matching listings in the dataset's row order, each
\* once and none missing, and filtering the view again under the same
\* criteria gives the view back.
C7_FilterKeepsOrderAndIsIdempotent ==
    /\ \A i, j \in DOMAIN df_filtered.rows :
          i < j => PlaceInDf(df_filtered.rows[i]) < PlaceInDf(df_filtered.rows[j])
    /\ \A i \in DOMAIN df_filtered.rows :
          df.rows[PlaceInDf(df_filtered.rows[i])] = df_filtered.rows[i]
    /\ Len(df_filtered.rows) = Cardinality({ k \in DOMAIN df.rows : Keeps(df.rows[k]) })
    /\ Filter(df_filtered, neighborhoods, price_range, room_types, availability,
              reviews_per_month_range) = df_filtered

\* A view of two listings or more.
C7_Witness == Len(df_filtered.rows) >= 2

\* C2: at the end of every run df is the loader's frame and df_filtered is
\* the frame the filter produced, with the rows and columns it had then.
C2_ViewNeverMutated ==
    cache # <<>> =>
        /\ df = load_data(listings_csv)
        /\ df_filtered # NoFrame =>
              df_filtered = Filter(df, neighborhoods, price_range, room_types,
                                   availability, reviews_per_month_range)

\* C3, as claimed: a criteria change on a page that shows the aggregates
\* leaves a page that shows them (recomputed).
C3_ChangeRecomputesAggregates ==
    [][ ( /\ AggregateNames \subseteq DOMAIN out
          /\ <<neighborhoods, room_types, price_range, availability,
               reviews_per_month_range>>'
               # <<neighborhoods, room_types, price_range, availability,
                   reviews_per_month_range>> )
        => AggregateNames \subseteq DOMAIN out' ]_vars

\* C3, amended: every run recomputes the view from the criteria in force;
\* aggregates are on the page only after a run the button triggered, and
\* what such a run shows is computed from the view of the criteria in force.
C3_EveryRunRefilters ==
    Started =>
        /\ ViewRows = SelectSeq(df.rows, Keeps)
        /\ ~home_button => DOMAIN out = {"markers"}
        /\ "total" \in DOMAIN out =>
              /\ out.total = Cardinality({ k \in DOMAIN df.rows : Keeps(df.rows[k]) })
              /\ out.avg_price = mean(Column(SelectSeq(df.rows, Keeps), "price"))
        /\ \E o \in script_body(df, neighborhoods, price_range, room_types,
                                availability, reviews_per_month_range, home_button) :
              out = o.out /\ error = o.error

\* The home page shown for criteria other than the defaults.
C3_Witness ==
    /\ Started
    /\ AggregateNames \subseteq DOMAIN out
    /\ neighborhoods # unique(df, "neighbourhood")
    /\ price_range # PriceDefault

\* The first run of a session on a dataset with rows.
FirstPage == cache = <<>> /\ cache' # <<>> /\ df'.rows # <<>>

\* C4, as claimed: the first run's criteria are all categories and each
\* column's [min, max], and its view is the whole dataset.
C4_DefaultsSelectEverything ==
    [][ FirstPage =>
          /\ neighborhoods' = unique(df', "neighbourhood")
          /\ room_types' = unique(df', "room_type")
          /\ price_range' = <<ColMin(df', "price"), ColMax(df', "price")>>
          /\ availability' =
                <<ColMin(df', "availability_365"), ColMax(df', "availability_365")>>
          /\ reviews_per_month_range' =
                <<ColMin(df', "reviews_per_month"), ColMax(df', "reviews_per_month")>>
          /\ df_filtered'.rows = df'.rows ]_vars

\* C4, amended: the first run's criteria are all categories, availability
\* [0, 365], reviews per month [0, max] and price [50, 300]; its view is the
\* listings priced from 50 to 300.
C4_DefaultsSelectPrice50To300 ==
    [][ FirstPage =>
          /\ neighborhoods' = unique(df', "neighbourhood")
          /\ room_types' = unique(df', "room_type")
          /\ price_range' = <<50, 300>>
          /\ availability' = <<0, 365>>
          /\ reviews_per_month_range' = <<0, ColMax(df', "reviews_per_month")>>
          /\ df_filtered'.rows =
                SelectSeq(df'.rows, LAMBDA r : 50 <= r.price /\ r.price <= 300) ]_vars

\* A first page whose view leaves out a listing of the dataset.
C4_Witness ==
    /\ Started
    /\ neighborhoods = unique(df, "neighbourhood")
    /\ room_types = unique(df, "room_type")
    /\ price_range = <<50, 300>>
    /\ availability = <<0, 365>>
    /\ reviews_per_month_range = <<0, ColMax(df, "reviews_per_month")>>
    /\ ~home_button
    /\ Len(df_filtered.rows) < Len(df.rows)

\* The listings of the file that lack nothing but last_review.
WithoutLastReview ==
    { i \in DOMAIN listings_csv :
        /\ listings_csv[i].last_review = EmptyCell
        /\ listings_csv[i].price # EmptyCell }

RECURSIVE SumOver(_, _)
SumOver(f, S) ==
    IF S = {} THEN 0
    ELSE LET x == CHOOSE y \in S : TRUE IN f[x] + SumOver(f, S \ {x})

\* C5, as claimed: a listing with no last_review is in the dataset.
C5_NoLastReviewStaysInDataset ==
    cache # <<>> =>
        \A i \in WithoutLastReview :
            \E k \in DOMAIN df.rows : df.rows[k].id = listings_csv[i].id

\* C5, amended: the loader drops a listing with no last_review, so it is in
\* neither the dataset nor the view nor any aggregate; every row of the view
\* has a last_review and the histogram's counts sum to the view's length.
C5_NoLastReviewIsDroppedAtLoad ==
    cache # <<>> =>
        /\ \A i \in WithoutLastReview :
              /\ \A k \in DOMAIN df.rows : df.rows[k].id # listings_csv[i].id
              /\ \A k \in DOMAIN df_filtered.rows :
                    df_filtered.rows[k].id # listings_csv[i].id
        /\ \A k \in DOMAIN df.rows : df.rows[k].last_review # NaT
        /\ "total" \in DOMAIN out => out.total = Len(df_filtered.rows)
        /\ "year_counts" \in DOMAIN out =>
              /\ SumOver(out.year_counts, DOMAIN out.year_counts)
                    = Cardinality({ k \in DOMAIN df_filtered.rows :
                                      df_filtered.rows[k].last_review # NaT })
              /\ SumOver(out.year_counts, DOMAIN out.year_counts)
                    = Len(df_filtered.rows)

\* A home page with a histogram, from a file that held a listing with no
\* last_review next to one that was kept.
C5_Witness ==
    /\ cache # <<>>
    /\ WithoutLastReview # {}
    /\ "year_counts" \in DOMAIN out
    /\ df_filtered.rows # <<>>

\* C6: the home page of an empty view ends without an exception, shows a
\* count of 0 and the same outcome (NaN) for both means, and shows the
\* remaining aggregates.
C6_EmptyViewIsHandled ==
    (Started /\ home_button /\ SelectSeq(df.rows, Keeps) = <<>>) =>
        /\ error = NoError
        /\ AggregateNames \subseteq DOMAIN out
        /\ out.total = 0
        /\ out.avg_price = NaN
        /\ out.avg_rpm = NaN

\* C8: the cheapest-listings table holds min(TopN, |view|) listings of the
\* view in ascending price order, none dearer than a listing left out, and
\* listings of equal price in the view's row order.
C8_CheapestIsStable ==
    "cheapest" \in DOMAIN out =>
        LET t == out.cheapest
            shown == { t[i].index : i \in DOMAIN t }
        IN  /\ Len(t) = Min(TopN, Len(df_filtered.rows))
            /\ \A i, j \in DOMAIN t :
                  i < j =>
                     \/ t[i].price < t[j].price
                     \/ (t[i].price = t[j].price /\ t[i].index < t[j].index)
            /\ \A i \in DOMAIN t : \A k \in DOMAIN df_filtered.rows :
                  df_filtered.rows[k].index \notin shown
                     => t[i].price <= df_filtered.rows[k].price

\* C9: the neighbourhood summary is in descending order of mean price, and
\* entries of equal mean price are in ascending order of name.
C9_SummaryTiesByName ==
    "neighborhood_stats" \in DOMAIN out =>
        LET t == out.neighborhood_stats
        IN  \A i, j \in DOMAIN t :
               i < j =>
                  \/ RatLess(t[j].average_price, t[i].average_price)
                  \/ /\ t[i].average_price = t[j].average_price
                     /\ Rank(t[i].neighbourhood) < Rank(t[j].neighbourhood)

\* C10: the neighbourhood summary has one entry for each neighbourhood of
\* the view and no other, each with the number of the view's rows in that
\* neighbourhood, and the numbers add up to the view's length.
C10_SummaryCountsTheView ==
    "neighborhood_stats" \in DOMAIN out =>
        LET t == out.neighborhood_stats
            count(n) == Cardinality({ k \in DOMAIN df_filtered.rows :
                                        df_filtered.rows[k].neighbourhood = n })
        IN  /\ \A i, j \in DOMAIN t :
                  t[i].neighbourhood = t[j].neighbourhood => i = j
            /\ { t[i].neighbourhood : i \in DOMAIN t }
                  = { df_filtered.rows[k].neighbourhood : k \in DOMAIN df_filtered.rows }
            /\ \A i \in DOMAIN t : t[i].num_listings = count(t[i].neighbourhood)
            /\ SumOver([i \in DOMAIN t |-> t[i].num_listings], DOMAIN t)
                  = Len(df_filtered.rows)

\* A summary of a view that holds one of the dataset's two neighbourhoods.
C10_Witness ==
    /\ "neighborhood_stats" \in DOMAIN out
    /\ Len(out.neighborhood_stats) = 1
    /\ Cardinality(unique(df, "neighbourhood")) = 2

====
